---- MODULE Spec2Model ----
(***************************************************************************)
(* The rotating-proxy fetch scheduler (class Proxy / Proxy2) of            *)
(* src/lib/Proxy*.ts, in its four variants:                                *)
(*   Legacy     src/src/lib/ProxyLegacy.ts      (puppeteer-extra + undici) *)
(*   NoStealth  src/unnamed/part_001            (puppeteer + undici)       *)
(*   Axios      src/src/lib/ProxyAxios.ts       (axios)                    *)
(*   Playwright src/src/lib/ProxyPlaywright.ts  (playwright firefox)       *)
(*                                                                         *)
(* JavaScript runs one task at a time: the code between two awaits is one  *)
(* atomic step, so every action below is the code from one suspension      *)
(* point of fetch to the next (suspension points at which nothing of the   *)
(* scheduler's state can differ, such as the awaits between newPage and    *)
(* goto, are not separate steps).  Time is counted in ticks; sleep(d) is a *)
(* timer that can fire once d ticks have passed (never earlier, possibly   *)
(* later).  The 50 ms rescan sleep, the 1 s back-off and the 10 s settling *)
(* sleep are suspension points without a tick count.  Permits are granted  *)
(* in no particular order.                                                 *)
(***************************************************************************)
EXTENDS Integers, Sequences, FiniteSets, TLC

\* ------------------------------------------------------------------ bounds
NumCalls == 2          \* concurrent top-level fetch calls
NumPorts == 2          \* largest configured port list (PROXY_PORTS)
NumHosts == 2          \* distinct target hostnames
MaxTries == 2          \* largest configured maxTries (PROXY_MAX_TRIES)
SuccessDelay == 1      \* sameHostnameSuccessDelay, in ticks
ErrorDelay == 2        \* sameHostnameErrorDelay, in ticks
MultiHostTries == 1    \* largest maxTries explored with a second hostname
FailingChainPorts == 1 \* largest port list explored with failing release chains

Calls == 1..NumCalls
Hosts == 1..NumHosts
Variants == {"Legacy", "NoStealth", "Axios", "Playwright"}
Undici == {"Legacy", "NoStealth"}
MaxDelay == IF SuccessDelay > ErrorDelay THEN SuccessDelay ELSE ErrorDelay

VARIABLES
  variant,      \* which Proxy class is running
  nports,       \* this.ports.length
  maxTries,     \* this.maxTries
  log,          \* this.log
  hostnames,    \* port.hostnames, for every port
  semaphores,   \* this.semaphores: hostname -> value of its Semaphore
  calls,        \* one record per top-level fetch call (its recursion included)
  timers,       \* sleep(delay) chains started by waitAndRelease
  released,     \* attempts whose release() closure has run
  browsers,     \* rendering-engine sessions open on every port
  request,      \* the header set of one plain GET/POST request
  exchanges,    \* the POST /api/fetch exchanges of the HTTP server
  shuffle,      \* one run of shuffleArray and of the scan that follows it
  page,         \* the page of one rendered attempt
  retry,        \* one call of fetchWithRetry
  guard,        \* the requests that reach the requireApiKey middleware
  wrapped       \* one call of withTimeout

vars == <<variant, nports, maxTries, log, hostnames, semaphores, calls,
          timers, released, browsers, request, exchanges, shuffle, page,
            retry, guard, wrapped>>

config == <<variant, nports, maxTries, log>>

\* what the scheduler never touches
boundary == <<request, exchanges, shuffle, page, retry, guard, wrapped>>

Ports == 1..nports

NoPayload == [try |-> -1, port |-> 0, via |-> "none", ok |-> FALSE]

IdleCall ==
  [pc |-> "idle", hostname |-> 0, method |-> "none", tries |-> 0, port |-> 0,
   shuffledPorts |-> <<>>, idx |-> 0, responses |-> <<>>,
   payload |-> NoPayload, error |-> "none",
   body |-> "none", requests |-> 0, errorLogs |-> 0]

\* options.method values each variant accepts (POST runs the code of GET)
Methods(v) ==
  IF v \in Undici THEN {"BROWSER", "GET"} ELSE {"GET"}

\* the attempt drives a page of a rendering engine
Rendered(v, m) == (v \in Undici /\ m = "BROWSER") \/ v = "Playwright"

\* the constructor's ports.map: the undici variants launch one browser per
\* port (browser: puppeteer.launch(...)), Axios and Proxy2 launch none
launched(v) == IF v \in Undici THEN 1 ELSE 0

\* Proxy2 launches a browser of its own in every attempt (firefox.launch)
\* and closes it when the attempt ends
launch(p) ==
  IF variant = "Playwright" THEN [browsers EXCEPT ![p] = @ + 1] ELSE browsers

close(p) ==
  IF variant = "Playwright" THEN [browsers EXCEPT ![p] = @ - 1] ELSE browsers

\* a header object without entries; headers: undefined of the undici call
EmptyHeaders == [k \in {} |-> "none"]

\* no header set has been built, no exchange has been received
NoRequest ==
  [state |-> "none", kind |-> "none", hasHeaders |-> FALSE,
   caller |-> EmptyHeaders, generated |-> EmptyHeaders, decompress |-> FALSE,
   headers |-> EmptyHeaders]

NoExchange ==
  [state |-> "none", path |-> "none", raised |-> "none", message |-> "none",
   status |-> 0, error |-> "none"]

\* shuffleArray has not run
NoShuffle ==
  [state |-> "none", ports |-> <<>>, draws |-> <<>>, shuffledPorts |-> <<>>,
   port |-> 0]

\* no rendered attempt has opened a page
NoPage ==
  [state |-> "none", waitUntil |-> "none", fails |-> "none", open |-> 0,
   closes |-> 0, outcome |-> "none"]

\* fetchWithRetry has not been called
NoRetry ==
  [state |-> "none", maxRetries |-> 0, attempt |-> 0, fetches |-> 0,
   waits |-> 0, results |-> <<>>]

\* no request has reached the server
NoGuard ==
  [apiKey |-> "none",
   requests |-> [c \in Calls |->
                   [state |-> "none", path |-> "none", key |-> "none",
                    status |-> 0]]]

\* withTimeout has not been called
NoWrapped ==
  [state |-> "none", ms |-> 0, errorMessage |-> "none", age |-> 0,
   promise |-> "none", at |-> 0, timer |-> "none", settled |-> "none",
   value |-> "none", settlements |-> 0, calls |-> 0]

Init ==
  /\ variant \in Variants
  /\ nports \in 0..NumPorts
  /\ maxTries \in 0..MaxTries
  /\ log \in (IF variant = "Playwright" THEN BOOLEAN ELSE {TRUE})
  /\ hostnames = [p \in 1..nports |-> {}]
  /\ semaphores = [h \in {} |-> 0]
  /\ calls = [c \in Calls |-> IdleCall]
  /\ timers = {}
  /\ released = {}
  /\ browsers = [p \in 1..nports |-> launched(variant)]
  /\ request = NoRequest
  /\ exchanges = [c \in Calls |-> NoExchange]
  /\ shuffle = NoShuffle
  /\ page = NoPage
  /\ retry = NoRetry
  /\ guard = NoGuard
  /\ wrapped = NoWrapped

\* ------------------------------------------------------------ fetch entry
\* mutant of fetchEntry: the guard is tries > maxTries
fetchEntry_Late(r, t) ==
  IF t > maxTries
  THEN [r EXCEPT !.pc = "thrown", !.error = "MaxTriesExceeded", !.tries = t,
                 !.port = 0, !.responses = <<>>, !.body = "none"]
  ELSE [r EXCEPT !.pc = "semaphoresMutex", !.tries = t,
                 !.port = 0, !.responses = <<>>, !.body = "none"]

\* fetch(url, options, t): the tries >= maxTries guard, then the request for
\* the semaphores mutex
fetchEntry(r, t) ==
  IF t >= maxTries
  THEN [r EXCEPT !.pc = "thrown", !.error = "MaxTriesExceeded", !.tries = t,
                 !.port = 0, !.responses = <<>>, !.body = "none"]
  ELSE [r EXCEPT !.pc = "semaphoresMutex", !.tries = t,
                 !.port = 0, !.responses = <<>>, !.body = "none"]

Fetch(c, h, m) ==
  /\ calls[c].pc = "idle"
  /\ \A d \in Calls : d < c => calls[d].pc # "idle"
  /\ \A g \in Hosts : g < h => \E d \in Calls : calls[d].hostname = g
  /\ h = 1 \/ maxTries <= MultiHostTries
  /\ m \in Methods(variant)
  /\ calls' = [calls EXCEPT ![c] =
                 fetchEntry([@ EXCEPT !.hostname = h, !.method = m], 0)]
  /\ UNCHANGED <<config, boundary, hostnames, semaphores, timers,
               released, browsers>>

\* mutant of GetSemaphore: = in place of ??=, every fetch installs a new pool
GetSemaphore_Replaces(c) ==
  /\ calls[c].pc = "semaphoresMutex"
  /\ semaphores' =
       [h \in DOMAIN semaphores \cup {calls[c].hostname} |->
          IF h = calls[c].hostname THEN nports ELSE semaphores[h]]
  /\ calls' = [calls EXCEPT ![c].pc = "acquire"]
  /\ UNCHANGED <<config, boundary, hostnames, timers, released, browsers>>

\* semaphoresMutex.runExclusive(() => semaphores[hostname] ??= new Semaphore(ports.length))
GetSemaphore(c) ==
  /\ calls[c].pc = "semaphoresMutex"
  /\ semaphores' =
       IF calls[c].hostname \in DOMAIN semaphores
       THEN semaphores
       ELSE [h \in DOMAIN semaphores \cup {calls[c].hostname} |->
               IF h = calls[c].hostname THEN nports ELSE semaphores[h]]
  /\ calls' = [calls EXCEPT ![c].pc = "acquire"]
  /\ UNCHANGED <<config, boundary, hostnames, timers, released, browsers>>

\* ----------------------------------------------------------- permit, port
\* Semaphore.acquire() of async-mutex resolves only while the value is positive
SemaphoreAvailable(h) == semaphores[h] > 0

\* shuffleArray([...this.ports]): Fisher-Yates can produce every ordering of
\* the copy
shuffleArray(S) ==
  {s \in [1..Cardinality(S) -> S] : \A i, j \in DOMAIN s : i # j => s[i] # s[j]}

\* mutant of Acquire: getAvailablePort starts without a permit
Acquire_NoPermit(c) ==
  /\ calls[c].pc = "acquire"
  /\ \E s \in shuffleArray(Ports) :
       calls' = [calls EXCEPT ![c].pc = "scan", ![c].shuffledPorts = s,
                              ![c].idx = 1]
  /\ UNCHANGED <<config, boundary, hostnames, semaphores, timers, released,
               browsers>>

\* const [_value, release] = await semaphore.acquire(); then the synchronous
\* head of getAvailablePort: the shuffle, and the request for the first mutex
Acquire(c) ==
  /\ calls[c].pc = "acquire"
  /\ SemaphoreAvailable(calls[c].hostname)
  /\ semaphores' = [semaphores EXCEPT ![calls[c].hostname] = @ - 1]
  /\ \E s \in shuffleArray(Ports) :
       calls' = [calls EXCEPT ![c].pc = "scan", ![c].shuffledPorts = s,
                              ![c].idx = 1]
  /\ UNCHANGED <<config, boundary, hostnames, timers, released, browsers>>

\* mutant of isAvailable: a claimed port is taken for every hostname
isAvailable_AnyHostname(p, h) == hostnames[p] = {}

\* the test inside port.hostnamesMutex.runExclusive
isAvailable(p, h) == h \notin hostnames[p]

\* one pass of the for loop of getAvailablePort: the runExclusive callback on
\* the next shuffled port; a claim returns the port and fetch dispatches the
\* backend operation, a full pass without a claim ends in sleep(50)
ScanPort(c) ==
  LET r == calls[c]
      p == r.shuffledPorts[r.idx]
  IN
  /\ r.pc = "scan"
  /\ IF isAvailable(p, r.hostname)
     THEN /\ hostnames' = [hostnames EXCEPT ![p] = @ \cup {r.hostname}]
          /\ calls' = [calls EXCEPT ![c].pc = "request", ![c].port = p,
                                    ![c].shuffledPorts = <<>>, ![c].idx = 0,
                                    ![c].requests = @ + 1]
          /\ browsers' = launch(p)
     ELSE /\ hostnames' = hostnames
          /\ browsers' = browsers
          /\ calls' = [calls EXCEPT
                         ![c].pc = IF r.idx = Len(r.shuffledPorts)
                                   THEN "sleep50" ELSE "scan",
                         ![c].idx = IF r.idx = Len(r.shuffledPorts)
                                    THEN 0 ELSE r.idx + 1]
  /\ UNCHANGED <<config, boundary, semaphores, timers, released>>

\* await sleep(50) is over: the while loop scans the same shuffled list again
Rescan(c) ==
  /\ calls[c].pc = "sleep50"
  /\ calls' = [calls EXCEPT ![c].pc = "scan", ![c].idx = 1]
  /\ UNCHANGED <<config, boundary, hostnames, semaphores, timers,
               released, browsers>>

\* ------------------------------------------------------- release of a claim
\* const delay = success ? sameHostnameSuccessDelay : sameHostnameErrorDelay
Delay(success) == IF success THEN SuccessDelay ELSE ErrorDelay

\* waitAndRelease(success): starts sleep(delay); the record is the pending
\* promise chain of the attempt (call, tries) on its port and hostname
waitAndRelease(r, c, success) ==
  [call |-> c, try |-> r.tries, port |-> r.port, hostname |-> r.hostname,
   success |-> success, age |-> 0, failed |-> FALSE]

\* mutant of Elapsed: the chain does not wait for the delay
Elapsed_AtOnce(tm) == TRUE

\* sleep(delay) resolves after at least delay
Elapsed(tm) == tm.age >= Delay(tm.success)

\* mutant of Release: every call of the closure returns a permit
Release_EveryCall(sem, tm) == [sem EXCEPT ![tm.hostname] = @ + 1]

\* the releaser returned by acquire() releases once: a second call of the
\* same closure does nothing
Release(sem, tm) ==
  IF <<tm.call, tm.try>> \in released
  THEN sem
  ELSE [sem EXCEPT ![tm.hostname] = @ + 1]

\* mutant of TimerFire: the chain releases the permit and skips the deletion
TimerFire_KeepsClaim(tm) ==
  /\ tm \in timers
  /\ ~tm.failed
  /\ Elapsed(tm)
  /\ semaphores' = Release(semaphores, tm)
  /\ released' = released \cup {<<tm.call, tm.try>>}
  /\ timers' = timers \ {tm}
  /\ UNCHANGED <<config, boundary, hostnames, calls, browsers>>

\* .then(() => port.hostnamesMutex.runExclusive(() => port.hostnames.delete(hostname)))
\* .then(release)
TimerFire(tm) ==
  /\ tm \in timers
  /\ ~tm.failed
  /\ Elapsed(tm)
  /\ hostnames' = [hostnames EXCEPT ![tm.port] = @ \ {tm.hostname}]
  /\ semaphores' = Release(semaphores, tm)
  /\ released' = released \cup {<<tm.call, tm.try>>}
  /\ timers' = timers \ {tm}
  /\ UNCHANGED <<config, boundary, calls, browsers>>

\* mutant of TimerFail: the rejection of the chain reaches the caller of fetch
TimerFail_Escalates(tm) ==
  /\ tm \in timers
  /\ ~tm.failed
  /\ Elapsed(tm)
  /\ nports <= FailingChainPorts
  /\ timers' = (timers \ {tm}) \cup {[tm EXCEPT !.failed = TRUE]}
  /\ calls' = [calls EXCEPT ![tm.call].pc = "thrown",
                            ![tm.call].error = "ReleaseFailed"]
  /\ UNCHANGED <<config, boundary, hostnames, semaphores, released, browsers>>

\* the chain rejects after its sleep, before the deletion took place: nothing
\* awaits the chain and its last link is .catch(console.error), so the
\* rejection is logged and ends there (the record stays as the logged
\* failure).  .then(release) is skipped by the rejection; Proxy2 has
\* .finally(release) in its place, which runs
TimerFail(tm) ==
  /\ tm \in timers
  /\ ~tm.failed
  /\ Elapsed(tm)
  /\ nports <= FailingChainPorts
  /\ timers' = (timers \ {tm}) \cup {[tm EXCEPT !.failed = TRUE]}
  /\ semaphores' = IF variant = "Playwright"
                   THEN Release(semaphores, tm) ELSE semaphores
  /\ released' = IF variant = "Playwright"
                 THEN released \cup {<<tm.call, tm.try>>} ELSE released
  /\ UNCHANGED <<config, boundary, hostnames, calls, browsers>>

\* one tick of time passes for every pending sleep(delay); the age of a
\* sleep whose delay has passed is not counted further (it may resolve late)
Tick ==
  /\ \E tm \in timers : ~Elapsed(tm)
  /\ timers' = {[tm EXCEPT !.age = IF Elapsed(tm) THEN @ ELSE @ + 1] :
                  tm \in timers}
  /\ UNCHANGED <<config, boundary, hostnames, semaphores, calls, released, browsers>>

\* ------------------------------------------------------ outcome of an attempt
\* the failed-attempt console.error of the catch block; Proxy2 writes it only
\* under this.log
LogsError == variant # "Playwright" \/ log

\* mutant of TriesLeft: tries < maxTries
TriesLeft_OffByOne(t) == t < maxTries

\* the catch block has retries left (Axios: tries < maxTries - 1, Proxy2:
\* tries + 1 < maxTries)
TriesLeft(t) == t + 1 < maxTries

\* the catch block of fetch after waitAndRelease(false): the undici variants
\* recurse at once, Axios and Proxy2 sleep 1 s and recurse while tries are
\* left and throw their own error otherwise
catch(r) ==
  LET logged == [r EXCEPT !.errorLogs = IF LogsError THEN @ + 1 ELSE @]
  IN IF variant \in Undici
     THEN fetchEntry(logged, r.tries + 1)
     ELSE IF TriesLeft(r.tries)
          THEN [logged EXCEPT !.pc = "sleep1000"]
          ELSE [logged EXCEPT !.pc = "thrown", !.port = 0,
                              !.error = IF variant = "Axios"
                                        THEN "RequestFailed"
                                        ELSE "Proxy2Failed"]

\* fetch returns a payload of the running attempt; p is the port whose
\* broadcast response was chosen (0 for the response of the primary request)
return(r, p, via, ok) ==
  [r EXCEPT !.pc = "returned", !.port = 0,
            !.payload = [try |-> r.tries, port |-> p, via |-> via, ok |-> ok]]

\* the backend operation produced its document or a success response:
\* waitAndRelease(), then return (Legacy, Axios, undici GET) or the awaited
\* close of the page (NoStealth), of page, context and browser (Proxy2)
RespondOk(c) ==
  LET r == calls[c] IN
  /\ r.pc = "request"
  /\ timers' = timers \cup {waitAndRelease(r, c, TRUE)}
  /\ calls' = [calls EXCEPT ![c] =
                 IF Rendered(variant, r.method) /\ variant # "Legacy"
                 THEN [r EXCEPT !.pc = "closing"]
                 ELSE return(r, 0, "primary", TRUE)]
  /\ UNCHANGED <<config, boundary, hostnames, semaphores, released, browsers>>

\* the backend operation threw (launch, newPage, authenticate, goto, content,
\* a transport error of undici or axios, response.text()); the catch block of
\* Proxy2 closes the browser of the attempt
RespondError(c) ==
  LET r == calls[c] IN
  /\ r.pc = "request"
  /\ timers' = timers \cup {waitAndRelease(r, c, FALSE)}
  /\ calls' = [calls EXCEPT ![c] = catch(r)]
  /\ browsers' = close(r.port)
  /\ UNCHANGED <<config, boundary, hostnames, semaphores, released>>

\* the sentinel body of the target site
SentinelBody == "Error updating item info: Could not find product"

\* mutant of IsSentinel: every body of a non-success response matches
IsSentinel_AnyBody(body) == TRUE

\* bodyText === "Error updating item info: Could not find product"
IsSentinel(body) == body = SentinelBody

\* mutant of RespondNotOk: the undici variants treat every response without
\* a success status as an error of the attempt
RespondNotOk_Throws(c, body) ==
  LET r == calls[c]
      seen == [r EXCEPT !.body = body]
  IN
  /\ r.pc = "request"
  /\ ~Rendered(variant, r.method)
  /\ timers' = timers \cup {waitAndRelease(r, c, FALSE)}
  /\ calls' = [calls EXCEPT ![c] = catch(seen)]
  /\ UNCHANGED <<config, boundary, hostnames, semaphores, released, browsers>>

\* a GET/POST response whose status is not a success status, with its body.
\* undici: the sentinel body starts sendRequestsToAllPorts, any other body is
\* returned as the result; axios rejects the promise, so the catch block runs
RespondNotOk(c, body) ==
  LET r == calls[c]
      seen == [r EXCEPT !.body = body]
  IN
  /\ r.pc = "request"
  /\ ~Rendered(variant, r.method)
  /\ IF variant = "Axios"
     THEN /\ timers' = timers \cup {waitAndRelease(r, c, FALSE)}
          /\ calls' = [calls EXCEPT ![c] = catch(seen)]
     ELSE IF IsSentinel(body)
          THEN /\ timers' = timers
               /\ calls' = [calls EXCEPT ![c] =
                              [seen EXCEPT !.pc = "sendRequestsToAllPorts"]]
          ELSE /\ timers' = timers \cup {waitAndRelease(r, c, TRUE)}
               /\ calls' = [calls EXCEPT ![c] =
                              return(seen, 0, "primary", FALSE)]
  /\ UNCHANGED <<config, boundary, hostnames, semaphores, released, browsers>>

\* await page.close() (and context.close(), browser.close()) after
\* waitAndRelease() went well: fetch returns the document
CloseOk(c) ==
  LET r == calls[c] IN
  /\ r.pc = "closing"
  /\ calls' = [calls EXCEPT ![c] = return(r, 0, "primary", TRUE)]
  /\ browsers' = close(r.port)
  /\ UNCHANGED <<config, boundary, hostnames, semaphores, timers, released>>

\* the close threw: the error reaches the catch block of fetch, which calls
\* waitAndRelease(false) for the attempt that already called waitAndRelease()
CloseError(c) ==
  LET r == calls[c] IN
  /\ r.pc = "closing"
  /\ timers' = timers \cup {waitAndRelease(r, c, FALSE)}
  /\ calls' = [calls EXCEPT ![c] = catch(r)]
  /\ browsers' = close(r.port)
  /\ UNCHANGED <<config, boundary, hostnames, semaphores, released>>

\* await sleep(1000) of the catch block is over: this.fetch(url, options, tries + 1)
Retry(c) ==
  /\ calls[c].pc = "sleep1000"
  /\ calls' = [calls EXCEPT ![c] = fetchEntry(@, @.tries + 1)]
  /\ UNCHANGED <<config, boundary, hostnames, semaphores, timers,
               released, browsers>>

\* ------------------------------------------------------- broadcast fallback
\* what one port's request of sendRequestsToAllPorts can end in
PortOutcomes == {"ok", "notOk", "threw"}

\* Promise.all(this.ports.map(...)) has settled: one outcome per configured
\* port (a port that threw or answered without a success status maps to
\* null); sleep(10000) starts
AllPortsSettled(c, resp) ==
  /\ calls[c].pc = "sendRequestsToAllPorts"
  /\ resp \in [Ports -> PortOutcomes]
  /\ calls' = [calls EXCEPT ![c].pc = "sleep10000", ![c].responses = resp]
  /\ UNCHANGED <<config, boundary, hostnames, semaphores, timers,
               released, browsers>>

\* mutant of validResponses: a response is kept without the response.ok test
validResponses_NoOkTest(resp) == {p \in DOMAIN resp : resp[p] # "threw"}

\* responses.filter((response) => response !== null), by port
validResponses(resp) == {p \in DOMAIN resp : resp[p] = "ok"}

\* after sleep(10000): validResponses[Math.floor(Math.random() * length)],
\* then waitAndRelease() and return validResponse in fetch
ReturnValidResponse(c, p) ==
  LET r == calls[c] IN
  /\ r.pc = "sleep10000"
  /\ p \in validResponses(r.responses)
  /\ timers' = timers \cup {waitAndRelease(r, c, TRUE)}
  /\ calls' = [calls EXCEPT ![c] = return(r, p, "broadcast", TRUE)]
  /\ UNCHANGED <<config, boundary, hostnames, semaphores, released, browsers>>

\* after sleep(10000): throw new Error("No valid responses from any port"),
\* inside the try of fetch, so its catch block runs
NoValidResponses(c) ==
  LET r == calls[c] IN
  /\ r.pc = "sleep10000"
  /\ validResponses(r.responses) = {}
  /\ timers' = timers \cup {waitAndRelease(r, c, FALSE)}
  /\ calls' = [calls EXCEPT ![c] = catch(r)]
  /\ UNCHANGED <<config, boundary, hostnames, semaphores, released, browsers>>

\* ------------------------------------------------------------ specification
Next ==
  \/ \E c \in Calls, h \in Hosts, m \in {"BROWSER", "GET"} : Fetch(c, h, m)
  \/ \E c \in Calls : GetSemaphore(c)
  \/ \E c \in Calls : Acquire(c)
  \/ \E c \in Calls : ScanPort(c)
  \/ \E c \in Calls : Rescan(c)
  \/ \E c \in Calls : RespondOk(c)
  \/ \E c \in Calls : RespondError(c)
  \/ \E c \in Calls,
          body \in {SentinelBody, "Not Found"} :
       RespondNotOk(c, body)
  \/ \E c \in Calls : CloseOk(c)
  \/ \E c \in Calls : CloseError(c)
  \/ \E c \in Calls : Retry(c)
  \/ \E c \in Calls, resp \in [Ports -> PortOutcomes] : AllPortsSettled(c, resp)
  \/ \E c \in Calls, p \in Ports : ReturnValidResponse(c, p)
  \/ \E c \in Calls : NoValidResponses(c)
  \/ \E tm \in timers : TimerFire(tm)
  \/ \E tm \in timers : TimerFail(tm)
  \/ Tick

Spec == Init /\ [][Next]_vars

\* ------------------------------------------- headers of a GET/POST request
\* header keys of the explored header objects (object keys are case
\* sensitive)
HeaderKeys == {"user-agent", "User-Agent", "Accept-Encoding", "accept"}

HeaderObjects(value) ==
  UNION {[K -> {value}] : K \in SUBSET HeaderKeys}

\* the requests whose header set is built: options with or without a headers
\* field, the output of headerGenerator.getHeaders(), options.decompress
\* (Axios), for the primary request or a request of sendRequestsToAllPorts
\* (undici variants)
RequestInputs(v) ==
  {[state |-> "options", kind |-> k, hasHeaders |-> hh, caller |-> cl,
    generated |-> g, decompress |-> d, headers |-> EmptyHeaders] :
     k \in (IF v \in Undici THEN {"primary", "broadcast"} ELSE {"primary"}),
     hh \in BOOLEAN,
     cl \in HeaderObjects("caller"),
     g \in HeaderObjects("generated"),
     d \in (IF v = "Axios" THEN BOOLEAN ELSE {FALSE})}

InitHeaders ==
  /\ variant \in {"Legacy", "NoStealth", "Axios"}
  /\ nports = 1
  /\ maxTries = 1
  /\ log = TRUE
  /\ hostnames = [p \in 1..nports |-> {}]
  /\ semaphores = [h \in {} |-> 0]
  /\ calls = [c \in Calls |-> IdleCall]
  /\ timers = {}
  /\ released = {}
  /\ browsers = [p \in 1..nports |-> launched(variant)]
  /\ request \in {r \in RequestInputs(variant) :
                     ~r.hasHeaders => r.caller = EmptyHeaders}
  /\ exchanges = [c \in Calls |-> NoExchange]
  /\ shuffle = NoShuffle
  /\ page = NoPage
  /\ retry = NoRetry
  /\ guard = NoGuard
  /\ wrapped = NoWrapped

\* { ...a, ...b }
Spread(a, b) ==
  [k \in DOMAIN a \cup DOMAIN b |-> IF k \in DOMAIN b THEN b[k] ELSE a[k]]

\* the headers option of the request.  undici variants:
\*   "headers" in options ? { ...getHeaders(), ...options.headers } : undefined
\* Axios:
\*   { ...userAgentHeaders, ...options.headers,
\*     "User-Agent": userAgentHeaders["user-agent"] || "Mozilla/5.0" }
\*   headers["Accept-Encoding"] = decompress ? "gzip, deflate, br" : "identity"
requestHeaders(v, r) ==
  IF v \in Undici
  THEN IF r.hasHeaders THEN Spread(r.generated, r.caller) ELSE EmptyHeaders
  ELSE LET userAgent == IF "user-agent" \in DOMAIN r.generated
                        THEN r.generated["user-agent"] ELSE "Mozilla/5.0"
           merged == Spread(Spread(r.generated, r.caller),
                            [k \in {"User-Agent"} |-> userAgent])
       IN Spread(merged,
                 [k \in {"Accept-Encoding"} |->
                    IF r.decompress THEN "gzip, deflate, br" ELSE "identity"])

\* the request is handed to undici's fetch or to axios with its header set
DispatchRequest ==
  /\ request.state = "options"
  /\ request' = [request EXCEPT !.state = "dispatched",
                                !.headers = requestHeaders(variant, request)]
  /\ UNCHANGED <<config, hostnames, semaphores, calls, timers, released,
               browsers, exchanges, shuffle, page, retry, guard, wrapped>>

NextHeaders == DispatchRequest

SpecHeaders == InitHeaders /\ [][NextHeaders]_vars

\* ------------------------------------------------------- POST /api/fetch
\* req.body.url: missing, not parseable by new URL(), or a URL
Urls == {"missing", "invalid", "valid"}

\* lib/sites/<hostname>.js: no file, a file whose default export is no
\* function, a site handler
Handlers == {"none", "notFunction", "function"}

\* messages of the errors that reach a catch block of the route
Messages ==
  {"Site handler timed out after ms", "Proxy fetch timed out after ms",
   "socket timed out", "MAX TRIES", "Handler is not a function",
   "Invalid URL"}

\* error.message.includes("timed out")
includesTimedOut(message) ==
  message \in {"Site handler timed out after ms",
               "Proxy fetch timed out after ms", "socket timed out"}

\* the catch block of the route: 408 for an Error whose message includes
\* "timed out", 500 otherwise, both with the error text
routeCatch(x, raised, message) ==
  [x EXCEPT !.state = "responded", !.raised = raised, !.message = message,
            !.status = IF includesTimedOut(message) THEN 408 ELSE 500,
            !.error = message]

\* the catch block around the proxy fallback: always 500, with the error text
proxyCatch(x, raised, message) ==
  [x EXCEPT !.state = "responded", !.raised = raised, !.message = message,
            !.status = 500, !.error = message]

InitEndpoint ==
  /\ variant = "Legacy"
  /\ nports = 1
  /\ maxTries = 1
  /\ log = TRUE
  /\ hostnames = [p \in 1..nports |-> {}]
  /\ semaphores = [h \in {} |-> 0]
  /\ calls = [c \in Calls |-> IdleCall]
  /\ timers = {}
  /\ released = {}
  /\ browsers = [p \in 1..nports |-> launched(variant)]
  /\ request = NoRequest
  /\ exchanges = [c \in Calls |-> NoExchange]
  /\ shuffle = NoShuffle
  /\ page = NoPage
  /\ retry = NoRetry
  /\ guard = NoGuard
  /\ wrapped = NoWrapped

\* the route up to its first await: 400 without a url, the catch block of the
\* route for new URL() and for a handler that is no function, else
\* withTimeout around the site handler or around Proxy.shared.fetch
Receive(c, url, handler) ==
  LET x == exchanges[c] IN
  /\ x.state = "none"
  /\ exchanges' = [exchanges EXCEPT ![c] =
       CASE url = "missing" -> [x EXCEPT !.state = "responded", !.status = 400]
         [] url = "invalid" -> routeCatch(x, "error", "Invalid URL")
         [] url = "valid" /\ handler = "notFunction" ->
              routeCatch(x, "error", "Handler is not a function")
         [] url = "valid" /\ handler = "function" ->
              [x EXCEPT !.state = "awaiting", !.path = "site"]
         [] url = "valid" /\ handler = "none" ->
              [x EXCEPT !.state = "awaiting", !.path = "proxy"]]
  /\ UNCHANGED <<config, hostnames, semaphores, calls, timers, released,
               browsers, request, shuffle, page, retry, guard, wrapped>>

\* the awaited promise resolves before the timer of withTimeout: res.json
Resolve(c) ==
  /\ exchanges[c].state = "awaiting"
  /\ exchanges' = [exchanges EXCEPT ![c].state = "responded",
                                    ![c].status = 200]
  /\ UNCHANGED <<config, hostnames, semaphores, calls, timers, released,
               browsers, request, shuffle, page, retry, guard, wrapped>>

\* the awaited promise rejects before the timer of withTimeout
Reject(c, message) ==
  LET x == exchanges[c] IN
  /\ x.state = "awaiting"
  /\ message \in {"socket timed out", "MAX TRIES"}
  /\ exchanges' = [exchanges EXCEPT ![c] =
                     IF x.path = "site"
                     THEN routeCatch(x, "error", message)
                     ELSE proxyCatch(x, "error", message)]
  /\ UNCHANGED <<config, hostnames, semaphores, calls, timers, released,
               browsers, request, shuffle, page, retry, guard, wrapped>>

\* the timer of withTimeout fires first: reject(new Error(errorMessage))
Timeout(c) ==
  LET x == exchanges[c] IN
  /\ x.state = "awaiting"
  /\ exchanges' = [exchanges EXCEPT ![c] =
                     IF x.path = "site"
                     THEN routeCatch(x, "timeout",
                                     "Site handler timed out after ms")
                     ELSE proxyCatch(x, "timeout",
                                     "Proxy fetch timed out after ms")]
  /\ UNCHANGED <<config, hostnames, semaphores, calls, timers, released,
               browsers, request, shuffle, page, retry, guard, wrapped>>

NextEndpoint ==
  \/ \E c \in Calls, url \in Urls, handler \in Handlers :
       Receive(c, url, handler)
  \/ \E c \in Calls : Resolve(c)
  \/ \E c \in Calls, message \in Messages : Reject(c, message)
  \/ \E c \in Calls : Timeout(c)

SpecEndpoint == InitEndpoint /\ [][NextEndpoint]_vars

\* ------------------------------------------- shuffleArray, draw by draw
ShufflePorts == 5      \* largest port list whose shuffles are enumerated

\* the values of Math.floor(Math.random() * (i + 1)) of one run of the loop,
\* for i = n - 1 down to 1: draws[i] is one of 0..i.  Math.random() being
\* uniform on [0, 1), every value of 0..i has probability 1 / (i + 1), so
\* every element of Draws(n) has the same probability 1 / n!
Draws(n) == {d \in [1..(n - 1) -> 0..(n - 1)] : \A i \in 1..(n - 1) : d[i] <= i}

\* mutant of swap: only array[i] is assigned
swap_OneWay(array, i, j) == [array EXCEPT ![i + 1] = array[j + 1]]

\* [array[i], array[j]] = [array[j], array[i]], on 0-based indices
swap(array, i, j) ==
  [array EXCEPT ![i + 1] = array[j + 1], ![j + 1] = array[i + 1]]

\* for (let i = array.length - 1; i > 0; i--) { j = ...; swap }, from index i
RECURSIVE shuffleLoop(_, _, _)
shuffleLoop(array, i, draws) ==
  IF i > 0 THEN shuffleLoop(swap(array, i, draws[i]), i - 1, draws) ELSE array

\* shuffleArray(array) with the given draws: the loop from the last index
shuffleArrayOf(array, draws) == shuffleLoop(array, Len(array) - 1, draws)

\* this.ports as the constructor builds it: port p at index p - 1
configuredPorts == [p \in 1..nports |-> p]

\* shuffleArray([...this.ports]) with the given draws
shuffleArrayWith(draws) == shuffleArrayOf(configuredPorts, draws)

\* mutant of spreadCopy: this.ports itself is handed to shuffleArray
spreadCopy_SameArray(array) == [array |-> array, own |-> FALSE]

\* [...array]: a new array with the elements of array in their order, which
\* shares no storage with array
spreadCopy(array) == [array |-> array, own |-> TRUE]

\* for (const port of shuffledPorts): the first port whose runExclusive
\* callback returns true, 0 when the pass ends without one
RECURSIVE firstAvailable(_, _, _)
firstAvailable(shuffledPorts, idx, h) ==
  IF idx > Len(shuffledPorts) THEN 0
  ELSE IF isAvailable(shuffledPorts[idx], h) THEN shuffledPorts[idx]
  ELSE firstAvailable(shuffledPorts, idx + 1, h)

\* a proxy with 1..ShufflePorts ports, all free for every hostname, and the
\* draws Math.random() is going to deliver to one call of getAvailablePort
InitShuffle ==
  /\ variant \in Variants
  /\ nports \in 1..ShufflePorts
  /\ maxTries = 1
  /\ log = TRUE
  /\ hostnames = [p \in 1..nports |-> {}]
  /\ semaphores = [h \in {} |-> 0]
  /\ calls = [c \in Calls |-> IdleCall]
  /\ timers = {}
  /\ released = {}
  /\ browsers = [p \in 1..nports |-> launched(variant)]
  /\ request = NoRequest
  /\ exchanges = [c \in Calls |-> NoExchange]
  /\ shuffle \in {[NoShuffle EXCEPT !.state = "drawn", !.draws = d,
                                    !.ports = configuredPorts] :
                    d \in Draws(nports)}
  /\ page = NoPage
  /\ retry = NoRetry
  /\ guard = NoGuard
  /\ wrapped = NoWrapped

\* const shuffledPorts = this.shuffleArray([...this.ports]): shuffleArray
\* reorders the array it is given in place and returns it, so this.ports is
\* reordered with it unless the argument has storage of its own
ShuffleArray ==
  LET argument == spreadCopy(shuffle.ports)
      result == shuffleArrayOf(argument.array, shuffle.draws) IN
  /\ shuffle.state = "drawn"
  /\ shuffle' = [shuffle EXCEPT !.state = "shuffled",
                                !.shuffledPorts = result,
                                !.ports = IF argument.own THEN @ ELSE result]
  /\ UNCHANGED <<config, hostnames, semaphores, calls, timers, released,
               browsers, request, exchanges, page, retry, guard, wrapped>>

\* the first pass of the for loop, for hostname h: the claim of the first
\* available port
ClaimAvailablePort(h) ==
  LET p == firstAvailable(shuffle.shuffledPorts, 1, h) IN
  /\ shuffle.state = "shuffled"
  /\ p # 0
  /\ shuffle' = [shuffle EXCEPT !.state = "claimed", !.port = p]
  /\ hostnames' = [hostnames EXCEPT ![p] = @ \cup {h}]
  /\ UNCHANGED <<config, semaphores, calls, timers, released, browsers,
               request, exchanges, page, retry, guard, wrapped>>

NextShuffle ==
  \/ ShuffleArray
  \/ ClaimAvailablePort(1)

SpecShuffle == InitShuffle /\ [][NextShuffle]_vars

\* ------------------------------------------------- progress of the scheduler
LiveCloseTries == 1    \* largest maxTries explored under fairness for the
                       \* variants that await the close of a page

\* the proxies whose progress is explored, with fetches to one hostname
InitLive ==
  /\ Init
  /\ variant \in {"NoStealth", "Playwright"} => maxTries <= LiveCloseTries

\* the pending backend operation of call c comes to its end: the response
\* or the error of the request, the outcome of the close, the settling of the
\* per-port requests, the end of the 10 s wait
BackendSettles(c) ==
  \/ RespondOk(c)
  \/ RespondError(c)
  \/ \E body \in {SentinelBody, "Not Found"} : RespondNotOk(c, body)
  \/ CloseOk(c)
  \/ CloseError(c)
  \/ \E resp \in [Ports -> PortOutcomes] : AllPortsSettled(c, resp)
  \/ \E p \in Ports : ReturnValidResponse(c, p)
  \/ NoValidResponses(c)

\* every release chain runs its deletion and its release: none rejects
NextLive ==
  \/ \E c \in Calls, m \in {"BROWSER", "GET"} : Fetch(c, 1, m)
  \/ \E c \in Calls : GetSemaphore(c)
  \/ \E c \in Calls : Acquire(c)
  \/ \E c \in Calls : ScanPort(c)
  \/ \E c \in Calls : Rescan(c)
  \/ \E c \in Calls : Retry(c)
  \/ \E c \in Calls : BackendSettles(c)
  \/ \E tm \in timers : TimerFire(tm)
  \/ Tick

\* the event loop runs every continuation that is ready (the grant of the
\* mutex and of a free permit, the next runExclusive callback, the end of
\* the 50 ms and 1 s sleeps), every backend operation comes to an end, time
\* passes and every timer whose delay has passed fires
Fairness ==
  /\ \A c \in Calls :
       /\ WF_vars(GetSemaphore(c))
       /\ WF_vars(Acquire(c))
       /\ WF_vars(ScanPort(c))
       /\ WF_vars(Rescan(c))
       /\ WF_vars(Retry(c))
       /\ WF_vars(BackendSettles(c))
  /\ WF_vars(\E tm \in timers : TimerFire(tm))
  /\ WF_vars(Tick)

SpecLive == InitLive /\ [][NextLive]_vars /\ Fairness

\* ------------------------------- POST /api/fetch over a running Proxy.fetch
\* the server of index.ts with its Proxy.shared of ProxyLegacy.ts
InitTimeout ==
  /\ Init
  /\ variant = "Legacy"

\* POST /api/fetch for a hostname without a site handler: the route calls
\* Proxy.shared.fetch(targetUrl, { method: "BROWSER", ... }), which runs up
\* to its first await, wraps the promise in withTimeout and awaits it
ReceiveProxy(c) ==
  /\ exchanges[c].state = "none"
  /\ calls[c].pc = "idle"
  /\ \A d \in Calls : d < c => calls[d].pc # "idle"
  /\ exchanges' = [exchanges EXCEPT ![c].state = "awaiting",
                                    ![c].path = "proxy"]
  /\ calls' = [calls EXCEPT ![c] =
                 fetchEntry([@ EXCEPT !.hostname = 1, !.method = "BROWSER"], 0)]
  /\ UNCHANGED <<config, hostnames, semaphores, timers, released, browsers,
               request, shuffle, page, retry, guard, wrapped>>

\* the promise of fetch is fulfilled while withTimeout is pending:
\* clearTimeout(timer), resolve(result), res.json
SettleResolved(c) ==
  /\ calls[c].pc = "returned"
  /\ Resolve(c)

\* the promise of fetch is rejected while withTimeout is pending:
\* clearTimeout(timer), reject(err), the catch block around the proxy fetch
SettleRejected(c) ==
  /\ calls[c].pc = "thrown"
  /\ Reject(c, "MAX TRIES")

\* mutant of TimeoutFires: the timeout cancels the fetch it was waiting for
TimeoutFires_Cancels(c) ==
  /\ calls[c].pc \notin {"returned", "thrown"}
  /\ exchanges[c].state = "awaiting"
  /\ exchanges' = [exchanges EXCEPT ![c] =
                     proxyCatch(exchanges[c], "timeout",
                                "Proxy fetch timed out after ms")]
  /\ calls' = [calls EXCEPT ![c].pc = "thrown", ![c].error = "Cancelled"]
  /\ UNCHANGED <<config, hostnames, semaphores, timers, released, browsers,
               request, shuffle, page, retry, guard, wrapped>>

\* the timer of withTimeout fires while fetch is still running (a settled
\* promise runs its then callback, with clearTimeout, before any timer):
\* reject(new Error(errorMessage)); nothing is told to fetch
TimeoutFires(c) ==
  /\ calls[c].pc \notin {"returned", "thrown"}
  /\ Timeout(c)

NextTimeout ==
  \/ \E c \in Calls : ReceiveProxy(c)
  \/ \E c \in Calls : GetSemaphore(c)
  \/ \E c \in Calls : Acquire(c)
  \/ \E c \in Calls : ScanPort(c)
  \/ \E c \in Calls : Rescan(c)
  \/ \E c \in Calls : RespondOk(c)
  \/ \E c \in Calls : RespondError(c)
  \/ \E tm \in timers : TimerFire(tm)
  \/ Tick
  \/ \E c \in Calls : SettleResolved(c)
  \/ \E c \in Calls : SettleRejected(c)
  \/ \E c \in Calls : TimeoutFires(c)

SpecTimeout == InitTimeout /\ [][NextTimeout]_vars

\* ------------------------------------------- the page of a BROWSER attempt
\* the awaited calls of the BROWSER branch that can reject, in program
\* order (part_001 has setRequestInterception and an awaited close)
PageSteps(v) ==
  IF v = "Legacy"
  THEN {"newPage", "authenticate", "goto", "content", "close"}
  ELSE {"newPage", "authenticate", "setRequestInterception", "goto",
        "content", "close"}

\* the calls inside the try block that closes the page: ProxyLegacy.ts has
\* try { authenticate ... return } finally { page.close().catch(...) },
\* part_001 has try { goto ... await page.close() } catch { await page.close() }
Guarded(v) ==
  IF v = "Legacy"
  THEN {"authenticate", "goto", "content"}
  ELSE {"goto", "content"}

\* one BROWSER attempt of an undici variant past its port claim, with the
\* waitUntil option of goto and the call that is going to reject, if any
InitPage ==
  /\ variant \in Undici
  /\ nports = 1
  /\ maxTries = 1
  /\ log = TRUE
  /\ hostnames = [p \in 1..nports |-> {}]
  /\ semaphores = [h \in {} |-> 0]
  /\ calls = [c \in Calls |-> IdleCall]
  /\ timers = {}
  /\ released = {}
  /\ browsers = [p \in 1..nports |-> launched(variant)]
  /\ request = NoRequest
  /\ exchanges = [c \in Calls |-> NoExchange]
  /\ shuffle = NoShuffle
  /\ page \in {[NoPage EXCEPT !.state = "newPage", !.waitUntil = w,
                              !.fails = f] :
                 w \in {"networkidle0", "domcontentloaded"},
                 f \in PageSteps(variant) \cup {"none"}}
  /\ retry = NoRetry
  /\ guard = NoGuard
  /\ wrapped = NoWrapped

\* the call step rejects: inside the try block the page is closed on the
\* way out (one call of page.close(), which succeeds unless close is the
\* failing call), outside the error leaves the BROWSER branch at once
pageThrows(pg, step) ==
  IF step \in Guarded(variant)
  THEN [pg EXCEPT !.state = "ended", !.outcome = "thrown",
                  !.closes = @ + 1, !.open = 0]
  ELSE [pg EXCEPT !.state = "ended", !.outcome = "thrown"]

\* const page = await browser.newPage()
NewPage ==
  /\ page.state = "newPage"
  /\ page' = IF page.fails = "newPage"
             THEN pageThrows(page, "newPage")
             ELSE [page EXCEPT !.state = "authenticate", !.open = 1]
  /\ UNCHANGED <<config, hostnames, semaphores, calls, timers, released,
               browsers, request, exchanges, shuffle, retry, guard, wrapped>>

\* await page.authenticate(this.credentials)
Authenticate ==
  /\ page.state = "authenticate"
  /\ page' = IF page.fails = "authenticate"
             THEN pageThrows(page, "authenticate")
             ELSE [page EXCEPT !.state = IF variant = "Legacy"
                                         THEN "goto"
                                         ELSE "setRequestInterception"]
  /\ UNCHANGED <<config, hostnames, semaphores, calls, timers, released,
               browsers, request, exchanges, shuffle, retry, guard, wrapped>>

\* await page.setRequestInterception(true); page.on("request", ...)
SetRequestInterception ==
  /\ page.state = "setRequestInterception"
  /\ page' = IF page.fails = "setRequestInterception"
             THEN pageThrows(page, "setRequestInterception")
             ELSE [page EXCEPT !.state = "goto"]
  /\ UNCHANGED <<config, hostnames, semaphores, calls, timers, released,
               browsers, request, exchanges, shuffle, retry, guard, wrapped>>

\* await page.goto(url.href, { waitUntil, timeout })
Goto ==
  /\ page.state = "goto"
  /\ page' = IF page.fails = "goto"
             THEN pageThrows(page, "goto")
             ELSE [page EXCEPT !.state = "content"]
  /\ UNCHANGED <<config, hostnames, semaphores, calls, timers, released,
               browsers, request, exchanges, shuffle, retry, guard, wrapped>>

\* const text = await page.content(); waitAndRelease().  ProxyLegacy.ts
\* returns the text through finally { page.close().catch(console.error) }:
\* close is called and a rejection of it is logged; part_001 awaits the close
Content ==
  /\ page.state = "content"
  /\ page' = IF page.fails = "content"
             THEN pageThrows(page, "content")
             ELSE IF variant = "Legacy"
                  THEN [page EXCEPT !.state = "ended", !.outcome = "returned",
                                    !.closes = @ + 1,
                                    !.open = IF page.fails = "close"
                                             THEN 1 ELSE 0]
                  ELSE [page EXCEPT !.state = "close"]
  /\ UNCHANGED <<config, hostnames, semaphores, calls, timers, released,
               browsers, request, exchanges, shuffle, retry, guard, wrapped>>

\* await page.close(); return text (part_001).  A rejection runs the catch
\* block, which calls page.close() once more, with either outcome, and throws
ClosePage(closed) ==
  /\ page.state = "close"
  /\ page' = IF page.fails = "close"
             THEN [page EXCEPT !.state = "ended", !.outcome = "thrown",
                               !.closes = @ + 2,
                               !.open = IF closed THEN 0 ELSE 1]
             ELSE [page EXCEPT !.state = "ended", !.outcome = "returned",
                               !.closes = @ + 1, !.open = 0]
  /\ UNCHANGED <<config, hostnames, semaphores, calls, timers, released,
               browsers, request, exchanges, shuffle, retry, guard, wrapped>>

NextPage ==
  \/ NewPage
  \/ Authenticate
  \/ SetRequestInterception
  \/ Goto
  \/ Content
  \/ \E closed \in BOOLEAN : ClosePage(closed)

SpecPage == InitPage /\ [][NextPage]_vars

\* ------------------------------------------------------- fetchWithRetry
RetryBound == 3        \* largest maxRetries explored (MAX_RETRIES of the route)

\* how an attempt of fetchWithRetry can end: a response with an ok status,
\* a response without one, a rejection of fetch, the timeout of withTimeout
AttemptResults == {"ok", "nonOk", "error", "timeout"}

\* a call fetchWithRetry(url, options, timeout, maxRetries, retryDelay)
InitRetry ==
  /\ variant = "Legacy"
  /\ nports = 1
  /\ maxTries = 1
  /\ log = TRUE
  /\ hostnames = [p \in 1..nports |-> {}]
  /\ semaphores = [h \in {} |-> 0]
  /\ calls = [c \in Calls |-> IdleCall]
  /\ timers = {}
  /\ released = {}
  /\ browsers = [p \in 1..nports |-> launched(variant)]
  /\ request = NoRequest
  /\ exchanges = [c \in Calls |-> NoExchange]
  /\ shuffle = NoShuffle
  /\ page = NoPage
  /\ retry \in {[NoRetry EXCEPT !.state = "called", !.maxRetries = m] :
                  m \in 0..RetryBound}
  /\ guard = NoGuard
  /\ wrapped = NoWrapped

\* mutant of withinRetries: attempt < maxRetries
withinRetries_Strict(rt) == rt.attempt < rt.maxRetries

\* attempt <= maxRetries, the test of the while loop and of the delay
withinRetries(rt) == rt.attempt <= rt.maxRetries

\* the while test, then the body up to await withTimeout(fetch(...)); past
\* the loop: throw new Error("Rooftop fetch error after n attempts")
nextAttempt(rt) ==
  IF withinRetries(rt)
  THEN [rt EXCEPT !.state = "fetching", !.fetches = @ + 1]
  ELSE [rt EXCEPT !.state = "thrown"]

\* let attempt = 0; the first pass of the loop
StartRetry ==
  /\ retry.state = "called"
  /\ retry' = nextAttempt(retry)
  /\ UNCHANGED <<config, hostnames, semaphores, calls, timers, released,
               browsers, request, exchanges, shuffle, page, guard, wrapped>>

\* the awaited withTimeout settles: return response for an ok status;
\* otherwise the error is logged, attempt++, and either the delay starts or
\* the loop ends
AttemptEnds(result) ==
  LET seen == [retry EXCEPT !.results = Append(@, result)]
      counted == [seen EXCEPT !.attempt = @ + 1]
  IN
  /\ retry.state = "fetching"
  /\ retry' = IF result = "ok"
              THEN [seen EXCEPT !.state = "returned"]
              ELSE IF withinRetries(counted)
                   THEN [counted EXCEPT !.state = "waiting", !.waits = @ + 1]
                   ELSE nextAttempt(counted)
  /\ UNCHANGED <<config, hostnames, semaphores, calls, timers, released,
               browsers, request, exchanges, shuffle, page, guard, wrapped>>

\* await new Promise((resolve) => setTimeout(resolve, retryDelay)) is over
DelayOver ==
  /\ retry.state = "waiting"
  /\ retry' = nextAttempt(retry)
  /\ UNCHANGED <<config, hostnames, semaphores, calls, timers, released,
               browsers, request, exchanges, shuffle, page, guard, wrapped>>

NextRetry ==
  \/ StartRetry
  \/ \E result \in AttemptResults : AttemptEnds(result)
  \/ DelayOver

SpecRetry == InitRetry /\ [][NextRetry]_vars

\* ------------------------------------------------------- requireApiKey
\* the value undefined of JavaScript: process.env.API_KEY when the variable
\* is not set, req.headers["x-api-key"] when the request has no such header
undefined == "(undefined)"

\* req.path of the explored requests
Paths == {"/github-webhook", "/api/fetch", "/health"}

\* req.headers["x-api-key"] of the explored requests
KeyHeaders == {undefined, "secret", "wrong"}

\* the server starts with API_KEY set to "secret" or not set at all
InitGuard ==
  /\ variant = "Legacy"
  /\ nports = 1
  /\ maxTries = 1
  /\ log = TRUE
  /\ hostnames = [p \in 1..nports |-> {}]
  /\ semaphores = [h \in {} |-> 0]
  /\ calls = [c \in Calls |-> IdleCall]
  /\ timers = {}
  /\ released = {}
  /\ browsers = [p \in 1..nports |-> launched(variant)]
  /\ request = NoRequest
  /\ exchanges = [c \in Calls |-> NoExchange]
  /\ shuffle = NoShuffle
  /\ page = NoPage
  /\ retry = NoRetry
  /\ guard \in {[NoGuard EXCEPT !.apiKey = k] : k \in {undefined, "secret"}}
  /\ wrapped = NoWrapped

\* requireApiKey(req, res, next), the first middleware of the app: next()
\* for /github-webhook, next() when apiKey === API_KEY, else status 403
requireApiKey(rq, path, key) ==
  IF path = "/github-webhook" \/ key = guard.apiKey
  THEN [rq EXCEPT !.state = "next", !.path = path, !.key = key]
  ELSE [rq EXCEPT !.state = "responded", !.path = path, !.key = key,
                  !.status = 403]

\* a request arrives and passes through the middleware
RequireApiKey(c, path, key) ==
  /\ guard.requests[c].state = "none"
  /\ \A d \in Calls : d < c => guard.requests[d].state # "none"
  /\ guard' = [guard EXCEPT !.requests[c] =
                 requireApiKey(guard.requests[c], path, key)]
  /\ UNCHANGED <<config, hostnames, semaphores, calls, timers, released,
               browsers, request, exchanges, shuffle, page, retry, wrapped>>

\* next(): the route handler of the path runs and answers
RouteHandler(c) ==
  /\ guard.requests[c].state = "next"
  /\ guard' = [guard EXCEPT !.requests[c].state = "handled",
                            !.requests[c].status = 200]
  /\ UNCHANGED <<config, hostnames, semaphores, calls, timers, released,
               browsers, request, exchanges, shuffle, page, retry, wrapped>>

NextGuard ==
  \/ \E c \in Calls, path \in Paths, key \in KeyHeaders :
       RequireApiKey(c, path, key)
  \/ \E c \in Calls : RouteHandler(c)

SpecGuard == InitGuard /\ [][NextGuard]_vars

\* ----------------------------------------------------------- withTimeout
TimeoutBound == 2      \* largest ms explored, in ticks

\* withTimeout(promise, ms, errorMessage) has run its executor: the timer is
\* armed and the callbacks are attached to the pending promise; the message
\* is the caller's or the default "Request timed out"
InitWrapped ==
  /\ variant = "Legacy"
  /\ nports = 1
  /\ maxTries = 1
  /\ log = TRUE
  /\ hostnames = [p \in 1..nports |-> {}]
  /\ semaphores = [h \in {} |-> 0]
  /\ calls = [c \in Calls |-> IdleCall]
  /\ timers = {}
  /\ released = {}
  /\ browsers = [p \in 1..nports |-> launched(variant)]
  /\ request = NoRequest
  /\ exchanges = [c \in Calls |-> NoExchange]
  /\ shuffle = NoShuffle
  /\ page = NoPage
  /\ retry = NoRetry
  /\ guard = NoGuard
  /\ wrapped \in {[NoWrapped EXCEPT !.state = "called", !.ms = ms,
                                    !.errorMessage = msg,
                                    !.promise = "pending",
                                    !.timer = "armed"] :
                    ms \in 0..TimeoutBound,
                    msg \in {"Request timed out", "Proxy fetch timed out"}}

\* resolve(x) or reject(x) of the new Promise: the first call settles it,
\* every later call is without effect
settle(w, how, x) ==
  IF w.settled = "none"
  THEN [w EXCEPT !.settled = how, !.value = x, !.settlements = @ + 1,
                 !.calls = @ + 1]
  ELSE [w EXCEPT !.calls = @ + 1]

\* mutant of clearTimeout: the callbacks leave the timer armed
clearTimeout_Forgotten(timer) == timer

\* clearTimeout(timer): an armed timer will not fire, a fired one stays fired
clearTimeout(timer) == IF timer = "armed" THEN "cleared" ELSE timer

\* the wrapped promise is fulfilled or rejected; its then or catch callback
\* runs before any timer callback: clearTimeout(timer), resolve(result) or
\* reject(err)
PromiseSettles(how) ==
  /\ wrapped.promise = "pending"
  /\ wrapped' =
       settle([wrapped EXCEPT !.promise = how, !.at = wrapped.age,
                              !.timer = clearTimeout(@)],
              how, IF how = "fulfilled" THEN "result" ELSE "err")
  /\ UNCHANGED <<config, hostnames, semaphores, calls, timers, released,
               browsers, request, exchanges, shuffle, page, retry, guard>>

\* the callback of setTimeout(..., ms) runs, not before ms has passed:
\* reject(new Error(errorMessage))
TimerRuns ==
  /\ wrapped.timer = "armed"
  /\ wrapped.age >= wrapped.ms
  /\ wrapped' = settle([wrapped EXCEPT !.timer = "fired"],
                       "rejected", wrapped.errorMessage)
  /\ UNCHANGED <<config, hostnames, semaphores, calls, timers, released,
               browsers, request, exchanges, shuffle, page, retry, guard>>

\* one tick of time passes (counted up to one tick past ms)
TimePasses ==
  /\ wrapped.state = "called"
  /\ wrapped.age <= wrapped.ms
  /\ wrapped' = [wrapped EXCEPT !.age = @ + 1]
  /\ UNCHANGED <<config, hostnames, semaphores, calls, timers, released,
               browsers, request, exchanges, shuffle, page, retry, guard>>

NextWrapped ==
  \/ \E how \in {"fulfilled", "rejected"} : PromiseSettles(how)
  \/ TimerRuns
  \/ TimePasses

SpecWrapped == InitWrapped /\ [][NextWrapped]_vars

\* ===================================================================== claims
\* the attempts a call can make
Attempts == Calls \X (0..(MaxTries - 1))

\* call c is inside an attempt that has claimed a port
InAttempt(c) ==
  calls[c].pc \in {"request", "sendRequestsToAllPorts", "sleep10000", "closing"}

\* attempt a is between its claim of (p, h) and the deferred deletion of that
\* claim: it claimed (p, h) and no release chain of its own has run yet
Holds(a, p, h) ==
  /\ a \notin released
  /\ \/ /\ InAttempt(a[1])
        /\ calls[a[1]].tries = a[2]
        /\ calls[a[1]].port = p
        /\ calls[a[1]].hostname = h
     \/ \E tm \in timers :
          tm.call = a[1] /\ tm.try = a[2] /\ tm.port = p /\ tm.hostname = h

Holders(p, h) == {a \in Attempts : Holds(a, p, h)}

InFlight(h) == {a \in Attempts : \E p \in Ports : Holds(a, p, h)}

\* C1: in every reachable state at most one attempt is between its claim of
\* a (port, hostname) pair and the deferred deletion of that claim.
C1_OneHolderPerPortAndHostname ==
  \A p \in Ports, h \in Hosts : Cardinality(Holders(p, h)) <= 1

\* C2: for every hostname the number of attempts that are past their port
\* claim and before their release never exceeds the number of configured
\* ports.
C2_InFlightAtMostPorts ==
  \A h \in Hosts : Cardinality(InFlight(h)) <= nports

\* C2 witness: two ports, both permits of a hostname taken by attempts past
\* their claim, and a further attempt waiting for a permit.
C2_Witness ==
  \E h \in Hosts, c \in Calls :
    /\ nports = 2 /\ Cardinality(InFlight(h)) = 2
    /\ calls[c].pc = "acquire" /\ calls[c].hostname = h
    /\ ~SemaphoreAvailable(h)

\* C3: the claim of an attempt is never removed before the attempt's own
\* timer (success or error delay, started once the outcome is known) has
\* fired: while the attempt holds its claim, the hostname is in the port's
\* set.
C3_ClaimKeptUntilOwnTimer ==
  \A a \in Attempts, p \in Ports, h \in Hosts :
    Holds(a, p, h) => h \in hostnames[p]

ExhaustedError ==
  CASE variant \in Undici \/ maxTries = 0 -> "MaxTriesExceeded"
    [] variant = "Axios" -> "RequestFailed"
    [] variant = "Playwright" -> "Proxy2Failed"

C5_PayloadAfterKFailuresAndKLogs ==
  \A c \in Calls :
    calls[c].pc = "returned" =>
      /\ calls[c].payload.try = calls[c].tries
      /\ calls[c].requests = calls[c].tries + 1
      /\ calls[c].errorLogs = calls[c].tries

\* a backend request of call c is on the wire
Dispatched(c) == calls[c].pc \in {"request", "sendRequestsToAllPorts"}

\* the sleep(delay) chain tm runs its deletion and release in this step
Fires(tm) ==
  /\ tm \in timers
  /\ \A tn \in timers' :
       ~(tn.call = tm.call /\ tn.try = tm.try /\ tn.success = tm.success)

\* call c claims a port in this step
Claims(c) == calls[c].pc = "scan" /\ calls'[c].pc = "request"

FallbackExhausted(c) ==
  /\ calls[c].pc = "sleep10000"
  /\ \A p \in Ports : calls[c].responses[p] # "ok"
  /\ calls'[c] # calls[c]

\* C7: when the broadcast fallback gets no successful response from any port,
\* fetch fails with the NoValidResponses error as a terminal failure: no
\* further attempt is started and no other error replaces it.
C7_NoValidResponsesIsTerminal ==
  [][\A c \in Calls :
       FallbackExhausted(c) =>
         calls'[c].pc = "thrown" /\ calls'[c].error = "NoValidResponses"
    ]_vars

\* the broadcast fallback of call c is running or has produced its result
FallbackInvoked(c) ==
  \/ calls[c].pc \in {"sendRequestsToAllPorts", "sleep10000"}
  \/ calls[c].pc = "returned" /\ calls[c].payload.via = "broadcast"

\* a result of the fallback is returned by the attempt that invoked it: the
\* attempt counter is not incremented and no further primary request is made
FallbackResultDirect(c) ==
  calls[c].payload.via = "broadcast" =>
    /\ calls[c].pc = "returned"
    /\ calls[c].payload.try = calls[c].tries
    /\ calls[c].requests = calls[c].tries + 1

C9_BroadcastReturnsASuccess ==
  \A c \in Calls :
    /\ calls[c].pc = "sleep10000" =>
         /\ DOMAIN calls[c].responses = Ports
         /\ \A p \in Ports :
              calls[c].responses[p] = "ok" =>
                /\ ENABLED ReturnValidResponse(c, p)
                /\ ~ENABLED NoValidResponses(c)
    /\ calls[c].payload.via = "broadcast" =>
         /\ calls[c].payload.port \in Ports
         /\ calls[c].responses[calls[c].payload.port] = "ok"
         /\ calls[c].payload.ok

\* C9 witness: with two ports, one of which did not answer with success, the
\* fallback has returned the response of the other.
C9_Witness ==
  \E c \in Calls, p, q \in Ports :
    /\ calls[c].pc = "returned" /\ calls[c].payload.via = "broadcast"
    /\ calls[c].payload.port = p
    /\ calls[c].responses[q] # "ok"

\* network operations to hostname h that port p carries: the primary request
\* of an attempt that claimed p, and the request every running broadcast
\* sends through p
Operations(p, h) ==
  {<<c, "primary">> : c \in {d \in Calls : /\ calls[d].pc = "request"
                                            /\ calls[d].port = p
                                            /\ calls[d].hostname = h}}
  \cup
  {<<c, "broadcast">> : c \in {d \in Calls :
                                 /\ calls[d].pc = "sendRequestsToAllPorts"
                                 /\ calls[d].hostname = h}}

\* C10: at no time does one port carry two network operations to the same
\* hostname, counting primary attempts and the requests of the broadcast
\* fallback.
C10_OneOperationPerPortAndHostname ==
  \A p \in Ports, h \in Hosts : Cardinality(Operations(p, h)) <= 1

\* fetch is invoked for call c in this step, by its caller or by the
\* recursion of a catch block; the invocation's tries is calls'[c].tries
EntersFetch(c) ==
  \/ calls[c].pc = "idle" /\ calls'[c].pc # "idle"
  \/ calls'[c].tries = calls[c].tries + 1

\* C11: an invocation of fetch entered with tries >= maxTries rejects in the
\* same step with MaxTriesExceeded and changes nothing of the scheduler: no
\* permit pool is created, no permit is taken or returned, no port is
\* claimed or freed, no backend request is dispatched, and an invocation by
\* the caller starts no release chain either.
C11_ExhaustedEntryRejectsUnchanged ==
  [][\A c \in Calls :
       EntersFetch(c) /\ calls'[c].tries >= maxTries =>
         /\ calls'[c].pc = "thrown"
         /\ calls'[c].error = "MaxTriesExceeded"
         /\ semaphores' = semaphores
         /\ hostnames' = hostnames
         /\ released' = released
         /\ calls'[c].requests = calls[c].requests
         /\ calls[c].pc = "idle" => timers' = timers
    ]_vars

\* C11 witness: maxTries is 0, a fetch has been rejected by the guard and no
\* permit pool exists, no port is claimed and no request was dispatched.
C11_Witness ==
  \E c \in Calls :
    /\ maxTries = 0 /\ nports > 0
    /\ calls[c].pc = "thrown" /\ calls[c].error = "MaxTriesExceeded"
    /\ calls[c].requests = 0
    /\ DOMAIN semaphores = {}
    /\ \A p \in Ports : hostnames[p] = {}

\* chains that waitAndRelease starts in this step
NewChains ==
  {tm \in timers' :
     \A tn \in timers :
       ~(tn.call = tm.call /\ tn.try = tm.try /\ tn.success = tm.success)}

\* the chain tm comes to its end in this step, by its deletion and release
\* or by a rejection
Ends(tm) ==
  /\ tm \in timers /\ ~tm.failed
  /\ \A tn \in timers' :
       tn.call = tm.call /\ tn.try = tm.try /\ tn.success = tm.success
         => tn.failed

\* C12: the step of fetch that calls waitAndRelease goes on at once to the
\* payload, the error, the close of the page or the retry, while the chain it
\* started has its whole delay ahead; the step in which a chain ends, by its
\* deletion and release or by a rejection, changes no call; and a payload or
\* error once delivered never changes.
C12_ReleaseIsDetached ==
  [][/\ \A tm \in NewChains :
          /\ tm.age = 0 /\ ~Elapsed(tm) /\ ~tm.failed
          /\ calls'[tm.call].pc \in
               {"returned", "thrown", "closing", "sleep1000", "semaphoresMutex"}
     /\ \A tm \in timers : Ends(tm) => calls' = calls
     /\ \A c \in Calls :
          calls[c].pc \in {"returned", "thrown"} => calls'[c] = calls[c]
    ]_vars

\* C12 witness: a call has its payload and the release chain of the attempt
\* that produced it has failed.
C12_Witness ==
  \E c \in Calls, tm \in timers :
    /\ calls[c].pc = "returned" /\ calls[c].payload.ok
    /\ tm.call = c /\ tm.try = calls[c].payload.try /\ tm.failed

\* attempts that have a permit of hostname h: past semaphore.acquire() and
\* their release() has not run
PermitsHeld(h) ==
  {a \in Attempts :
     /\ a \notin released
     /\ \/ /\ calls[a[1]].pc \in {"scan", "sleep50", "request", "closing",
                                  "sendRequestsToAllPorts", "sleep10000"}
           /\ calls[a[1]].tries = a[2]
           /\ calls[a[1]].hostname = h
        \/ \E tm \in timers :
             tm.call = a[1] /\ tm.try = a[2] /\ tm.hostname = h}

\* call c passes the semaphores mutex in this step
PassesSemaphoresMutex(c) ==
  calls[c].pc = "semaphoresMutex" /\ calls'[c].pc = "acquire"

\* C13: a hostname has a permit pool exactly when a fetch to it has passed
\* the semaphores mutex; the free permits and the permits held by the
\* attempts to that hostname always add up to the number of configured
\* ports, so all fetches to the hostname share one pool of that capacity; a
\* pool is created with all its permits free, a fetch that finds the pool
\* leaves it as it is, and no pool is ever removed.
C13_OnePermitPoolPerHostname ==
  /\ [](\A h \in Hosts :
          /\ h \in DOMAIN semaphores <=>
               \E c \in Calls :
                 /\ calls[c].hostname = h
                 /\ \/ calls[c].pc \notin {"idle", "semaphoresMutex", "thrown"}
                    \/ calls[c].requests > 0
          /\ h \in DOMAIN semaphores =>
               semaphores[h] + Cardinality(PermitsHeld(h)) = nports)
  /\ [][/\ DOMAIN semaphores \subseteq DOMAIN semaphores'
        /\ \A h \in DOMAIN semaphores' \ DOMAIN semaphores :
             semaphores'[h] = nports
        /\ \A c \in Calls :
             PassesSemaphoresMutex(c)
               /\ calls[c].hostname \in DOMAIN semaphores
               => semaphores' = semaphores
       ]_vars

\* C13 witness: one fetch to a hostname has a permit and its request on the
\* wire while another fetch to the same hostname is at the semaphores mutex.
C13_Witness ==
  \E c, d \in Calls :
    /\ c # d /\ calls[c].hostname = calls[d].hostname
    /\ calls[c].pc = "request" /\ calls[d].pc = "semaphoresMutex"
    /\ semaphores[calls[c].hostname] = nports - 1

\* port p has a claim for hostname h that an attempt or a chain to h stands
\* for
Claimed(p, h) ==
  \/ \E c \in Calls :
       InAttempt(c) /\ calls[c].port = p /\ calls[c].hostname = h
  \/ \E tm \in timers : tm.port = p /\ tm.hostname = h

\* C14: whatever is claimed or held for other hostnames, with a non-empty
\* port list a fetch to h gets a permit as soon as no attempt to h holds
\* all of them, and claims the port it scans as soon as no attempt and no
\* chain to h stands for a claim of that port.
C14_HostnamesAreIndependent ==
  \A c \in Calls :
    LET h == calls[c].hostname IN
    /\ calls[c].pc = "acquire" /\ Cardinality(PermitsHeld(h)) < nports
         => ENABLED Acquire(c)
    /\ calls[c].pc = "scan"
         /\ ~Claimed(calls[c].shuffledPorts[calls[c].idx], h)
         => isAvailable(calls[c].shuffledPorts[calls[c].idx], h)
    /\ \A p \in Ports : h \in hostnames[p] => Claimed(p, h)

\* C14 witness: with one port, the port is claimed for one hostname, whose
\* only permit is taken, and carries the request of a fetch to another
\* hostname at the same time.
C14_Witness ==
  \E c, d \in Calls :
    /\ nports = 1
    /\ calls[c].hostname # calls[d].hostname
    /\ calls[c].pc = "request" /\ calls[d].pc = "request"
    /\ calls[c].port = calls[d].port
    /\ semaphores[calls[c].hostname] = 0 /\ semaphores[calls[d].hostname] = 0

\* header names are case-insensitive: the name a key of a header object
\* stands for
Name(k) == IF k = "User-Agent" THEN "user-agent" ELSE k

\* every entry the header object has under the name carries value v, and
\* there is one
Carries(headers, name, v) ==
  /\ \E k \in DOMAIN headers : Name(k) = name
  /\ \A k \in DOMAIN headers : Name(k) = name => headers[k] = v

\* C15: for every header name that both the output of the Header Identity
\* Generator and the caller's options.headers have, the dispatched request
\* carries the caller's value under that name, User-Agent and
\* Accept-Encoding included.
C15_CallerHeadersWin ==
  request.state = "dispatched" /\ request.hasHeaders =>
    \A k \in DOMAIN request.caller :
      (\E g \in DOMAIN request.generated : Name(g) = Name(k)) =>
        Carries(request.headers, Name(k), request.caller[k])

\* C16: every plain GET/POST request, primary or broadcast, carries a header
\* for every name in the output of the Header Identity Generator, with or
\* without an options.headers field.
C16_IdentityHeadersAlwaysSent ==
  request.state = "dispatched" =>
    \A g \in DOMAIN request.generated :
      \E k \in DOMAIN request.headers : Name(k) = Name(g)

\* C17: no step of a fetch attempt, successful or failed, opens, closes or
\* replaces a rendering-engine session of a port: the sessions are those the
\* constructor launched.
C17_SessionsOutliveAttempts ==
  [][browsers' = browsers]_vars

\* attempts of call c that have failed so far
Failures(c) ==
  IF \/ calls[c].pc = "sleep1000"
     \/ /\ calls[c].pc = "thrown"
        /\ calls[c].error \in {"RequestFailed", "Proxy2Failed"}
  THEN calls[c].tries + 1
  ELSE calls[c].tries

\* C18: every failed attempt has written its failed-attempt log entry,
\* whatever the verbose-logging flag is, and a fetch that has returned has a
\* payload.
C18_EveryFailureLogged ==
  \A c \in Calls :
    /\ calls[c].errorLogs >= Failures(c)
    /\ calls[c].pc = "returned" => calls[c].payload # NoPayload

\* C19: no fetch runs on an instance that was constructed with an empty port
\* list.
C19_MisconfiguredNeverFetches ==
  \A c \in Calls : calls[c].pc # "idle" => nports > 0

\* C20: every exchange that ended by a timeout of withTimeout, around the
\* site handler or around the proxy fetch, is answered with status 408 and
\* not with the 500 of other failures, and every failure response carries
\* the text of the error.
C20_TimeoutsAnsweredDistinctly ==
  \A c \in Calls :
    exchanges[c].state = "responded" =>
      /\ exchanges[c].raised = "timeout" => exchanges[c].status = 408
      /\ exchanges[c].raised # "none" =>
           /\ exchanges[c].status \in {408, 500}
           /\ exchanges[c].error = exchanges[c].message

\* the draw sequences after which getAvailablePort claims port p when every
\* port is free
DrawsClaiming(p) ==
  {d \in Draws(nports) : shuffleArrayWith(d)[1] = p}

\* C21: with every port free for the hostname, the port getAvailablePort
\* claims is the first of the shuffled list, the shuffled list is one of the
\* orderings of the ports, and every one of the N ports is claimed after
\* exactly 1/N of the equally likely draw sequences of shuffleArray
C21_ClaimedPortIsUniform ==
  /\ shuffle.state \in {"shuffled", "claimed"} =>
       shuffle.shuffledPorts \in shuffleArray(Ports)
  /\ shuffle.state = "claimed" =>
       /\ shuffle.port = shuffle.shuffledPorts[1]
       /\ \A p \in Ports :
            Cardinality(DrawsClaiming(p)) * nports = Cardinality(Draws(nports))

\* a port other than the first of a list of three or more has been claimed
\* after a shuffle that moved every port
C21_Witness ==
  /\ shuffle.state = "claimed"
  /\ nports >= 3
  /\ shuffle.port # 1
  /\ \A i \in Ports : shuffle.shuffledPorts[i] # i
  /\ hostnames[shuffle.port] = {1}

\* attempt a has called waitAndRelease: its chain is pending or rejected
\* (a record of timers) or has run its release
Scheduled(a) ==
  \/ a \in released
  \/ \E tm \in timers : tm.call = a[1] /\ tm.try = a[2]

\* call c ends the attempt it is in (the payload, the error or the retry)
EndsAttempt(c) ==
  /\ InAttempt(c)
  /\ ~(calls'[c].tries = calls[c].tries
         /\ calls'[c].pc \in {"request", "sendRequestsToAllPorts",
                              "sleep10000", "closing"})

\* C22: an attempt that claimed a port calls waitAndRelease exactly once on
\* every control path: a step that starts a release chain for an attempt
\* finds no chain started for that attempt before (never twice), and when an
\* attempt ends a chain has been started for it (never zero).
C22_ReleaseScheduledExactlyOnce ==
  [][/\ \A tm \in NewChains : ~Scheduled(<<tm.call, tm.try>>)
     /\ \A c \in Calls :
          EndsAttempt(c) =>
            \/ <<c, calls[c].tries>> \in released'
            \/ \E tm \in timers' : tm.call = c /\ tm.try = calls[c].tries
    ]_vars

\* ports whose claimed set contains hostname h
ClaimedPorts(h) == {p \in Ports : h \in hostnames[p]}

\* calls whose attempt holds a permit of the pool of h and has not claimed a
\* port yet: inside getAvailablePort
Scanning(h) ==
  {c \in Calls : calls[c].pc \in {"scan", "sleep50"} /\ calls[c].hostname = h}

\* some release chain of hostname h has rejected
ChainRejected(h) == \E tm \in timers : tm.hostname = h /\ tm.failed

Quiescent ==
  /\ \A c \in Calls : calls[c].pc \in {"idle", "returned", "thrown"}
  /\ timers = {}

\* C24: once every fetch has returned or thrown and every cool-down timer
\* has fired, the set of every port is empty and every permit pool has all
\* its permits: no claim and no permit is leaked.
C24_QuiescentLeavesNothingClaimed ==
  Quiescent =>
    /\ \A p \in Ports : hostnames[p] = {}
    /\ \A h \in DOMAIN semaphores : semaphores[h] = nports

\* C24 witness: all is quiet after one fetch returned a payload and another
\* threw, three or more attempts having run their release.
C24_Witness ==
  /\ Quiescent
  /\ nports > 0
  /\ \E c, d \in Calls :
       /\ calls[c].pc = "returned" /\ calls[d].pc = "thrown"
       /\ calls[d].requests >= 2
  /\ Cardinality(released) >= 3

\* C27: once the backend operation has produced the payload, fetch returns
\* that payload from that attempt: whatever happens while page, context or
\* browser are closed, the next step of the call is the return of the
\* payload of the running attempt, never the catch block, a retry or a throw.
C27_PayloadSurvivesCloseFailure ==
  [][\A c \in Calls :
       calls[c].pc = "closing" /\ calls'[c] # calls[c] =>
         /\ calls'[c].pc = "returned"
         /\ calls'[c].payload.try = calls[c].tries
         /\ calls'[c].payload.ok
         /\ calls'[c].errorLogs = calls[c].errorLogs
    ]_vars

\* call c is inside sendRequestsToAllPorts: its per-port requests are on the
\* wire or settled, or its 10 s wait is running
InBroadcast(c) == calls[c].pc \in {"sendRequestsToAllPorts", "sleep10000"}

\* C28: while the broadcast fallback of an attempt runs, the attempt keeps
\* its permit and its (port, hostname) claim and has started no release
\* chain; its release chain is started by the step that follows the 10 s
\* wait, which itself follows the settling of all per-port requests.
C28_BroadcastKeepsPermitAndClaim ==
  /\ [](\A c \in Calls :
          InBroadcast(c) =>
            /\ ~Scheduled(<<c, calls[c].tries>>)
            /\ <<c, calls[c].tries>> \in PermitsHeld(calls[c].hostname)
            /\ calls[c].hostname \in hostnames[calls[c].port])
  /\ [][\A c \in Calls :
          /\ calls[c].pc = "sendRequestsToAllPorts" /\ calls'[c] # calls[c]
               => calls'[c].pc = "sleep10000"
          /\ calls[c].pc = "sleep10000" /\ calls'[c] # calls[c]
               => \E tm \in NewChains :
                    tm.call = c /\ tm.try = calls[c].tries /\ tm.age = 0
       ]_vars

\* C25: an attempt that has acquired a permit and scans the ports
\* eventually claims one and dispatches its backend operation, after
\* finitely many 50 ms rescans, when every release timer fires and the
\* scheduler is fair.
C25_ScanningAttemptClaimsAPort ==
  \A c \in Calls :
    (calls[c].pc \in {"scan", "sleep50"}) ~> (calls[c].pc = "request")

\* C25 witness: with two ports, an attempt that holds a permit has found
\* each port taken when it looked at it and sleeps 50 ms, while the port it
\* looked at first is free again.
C25_Witness ==
  \E c \in Calls :
    /\ nports = 2
    /\ calls[c].pc = "sleep50"
    /\ isAvailable(calls[c].shuffledPorts[1], calls[c].hostname)
    /\ ~isAvailable(calls[c].shuffledPorts[2], calls[c].hostname)

\* C26: every call of fetch eventually returns or throws, whatever maxTries
\* and whatever the pattern of successes and failures, when every backend
\* operation and every timer comes to an end; and it dispatches at most
\* maxTries primary requests.
C26_EveryFetchEnds ==
  /\ \A c \in Calls :
       (calls[c].pc # "idle") ~> (calls[c].pc \in {"returned", "thrown"})
  /\ [](\A c \in Calls : calls[c].requests <= maxTries)

\* the exchange of call c was answered by the timeout of withTimeout
TimedOut(c) ==
  exchanges[c].state = "responded" /\ exchanges[c].raised = "timeout"

\* the step fetch takes next is open to call c
CanGoOn(c) ==
  CASE calls[c].pc = "semaphoresMutex" -> ENABLED GetSemaphore(c)
    [] calls[c].pc = "acquire" ->
         SemaphoreAvailable(calls[c].hostname) => ENABLED Acquire(c)
    [] calls[c].pc = "scan" -> ENABLED ScanPort(c)
    [] calls[c].pc = "sleep50" -> ENABLED Rescan(c)
    [] calls[c].pc = "request" -> ENABLED RespondOk(c) /\ ENABLED RespondError(c)
    [] OTHER -> calls[c].pc \in {"returned", "thrown"}

\* C29: the timeout of withTimeout around a running Proxy.fetch changes
\* nothing of the scheduler: the step that answers the exchange leaves the
\* call, the claims, the permits and the release chains as they are; the
\* fetch goes on with the step it was about to take, keeps the permit and
\* the claim of its attempt until its own release chain runs, and once it
\* and the chains have ended nothing is left claimed; the response that was
\* sent never changes, whatever the fetch returns or throws later.
C29_TimeoutLeavesFetchRunning ==
  /\ [](\A c \in Calls :
          TimedOut(c) =>
            /\ exchanges[c].status = 500
            /\ CanGoOn(c)
            /\ InAttempt(c) =>
                 /\ ~Scheduled(<<c, calls[c].tries>>)
                 /\ <<c, calls[c].tries>> \in PermitsHeld(calls[c].hostname)
                 /\ calls[c].hostname \in hostnames[calls[c].port]
            /\ Quiescent =>
                 /\ \A p \in Ports : hostnames[p] = {}
                 /\ \A h \in DOMAIN semaphores : semaphores[h] = nports)
  /\ [][\A c \in Calls :
          /\ exchanges[c].state = "awaiting" /\ TimedOut(c)' =>
               UNCHANGED <<calls, hostnames, semaphores, timers, released>>
          /\ exchanges[c].state = "responded" => exchanges'[c] = exchanges[c]
       ]_vars

\* C29 witness: the exchange was answered by the timeout while the fetch was
\* running; the fetch has since returned the payload of its second attempt,
\* its release chains have run, and the response is still the one sent.
C29_Witness ==
  \E c \in Calls :
    /\ TimedOut(c)
    /\ calls[c].pc = "returned" /\ calls[c].payload.try = 1
    /\ {<<c, 0>>, <<c, 1>>} \subseteq released
    /\ Quiescent

\* C30: when a BROWSER attempt ends, by its payload or by an error of any
\* of its steps, page.close() has been called on the page it opened, and
\* the page is closed unless that close itself rejected.
C30_OpenedPageClosedWhenAttemptEnds ==
  page.state = "ended" /\ page.fails # "newPage" =>
    /\ page.closes >= 1
    /\ page.fails # "close" => page.open = 0

\* call c receives, in this step, a primary GET/POST response without a
\* success status whose body is not the sentinel
OtherBodyArrives(c) ==
  /\ variant \in Undici
  /\ \E body \in {"Not Found"} : ~IsSentinel(body) /\ RespondNotOk(c, body)

\* C31: in the undici variants a GET/POST primary response without a success
\* status and without the sentinel body is the result of its attempt: the
\* step that receives it returns it, starts the release chain of the attempt
\* with the success delay, leaves the attempt counter and the number of
\* dispatched requests as they are, and the call takes no further step.
C31_OtherFailureResponseIsReturned ==
  [][\A c \in Calls :
       /\ OtherBodyArrives(c) =>
            /\ calls'[c].pc = "returned"
            /\ calls'[c].payload =
                 [try |-> calls[c].tries, port |-> 0, via |-> "primary",
                  ok |-> FALSE]
            /\ calls'[c].tries = calls[c].tries
            /\ calls'[c].requests = calls[c].requests
            /\ calls'[c].errorLogs = calls[c].errorLogs
            /\ \E tm \in NewChains :
                 /\ tm.call = c /\ tm.try = calls[c].tries
                 /\ tm.port = calls[c].port /\ tm.success /\ tm.age = 0
                 /\ Delay(tm.success) = SuccessDelay
            /\ \A tm \in NewChains : tm.call = c => tm.success
       /\ calls[c].pc = "returned" => calls'[c] = calls[c]
    ]_vars

\* C31 witness: with retries left, the first attempt of a GET has returned a
\* response without a success status and its claim is in its success
\* cool-down.
C31_Witness ==
  \E c \in Calls, tm \in timers :
    /\ variant \in Undici /\ maxTries = 2
    /\ calls[c].pc = "returned" /\ calls[c].tries = 0
    /\ calls[c].body = "Not Found" /\ ~calls[c].payload.ok
    /\ calls[c].requests = 1
    /\ tm.call = c /\ tm.try = 0 /\ tm.success /\ ~tm.failed
    /\ calls[c].hostname \in hostnames[tm.port]

\* C32: fetchWithRetry starts at most maxRetries + 1 attempts; it returns at
\* the first response with an ok status and throws only after maxRetries + 1
\* attempts that each ended in a response without an ok status, an error or
\* a timeout; it has waited retryDelay once between every two consecutive
\* attempts and not after the last one; after its return or throw it makes
\* no attempt.
C32_RetriesUpToMaxRetries ==
  /\ [](/\ retry.fetches <= retry.maxRetries + 1
        /\ retry.state = "fetching" =>
             /\ retry.fetches = Len(retry.results) + 1
             /\ retry.waits = retry.fetches - 1
        /\ retry.state = "waiting" =>
             /\ retry.fetches = Len(retry.results)
             /\ retry.waits = retry.fetches
        /\ retry.state \in {"fetching", "waiting"} =>
             \A i \in DOMAIN retry.results : retry.results[i] # "ok"
        /\ retry.state = "returned" =>
             /\ retry.fetches = Len(retry.results)
             /\ retry.results[retry.fetches] = "ok"
             /\ \A i \in 1..(retry.fetches - 1) : retry.results[i] # "ok"
             /\ retry.waits = retry.fetches - 1
        /\ retry.state = "thrown" =>
             /\ retry.fetches = retry.maxRetries + 1
             /\ Len(retry.results) = retry.fetches
             /\ \A i \in DOMAIN retry.results : retry.results[i] # "ok"
             /\ retry.waits = retry.fetches - 1)
  /\ [][retry.state \in {"returned", "thrown"} => retry' = retry]_vars

\* C32 witness: with three retries allowed, the third attempt returned an ok
\* response after a timeout and a response without an ok status, two delays
\* having passed.
C32_Witness ==
  /\ retry.state = "returned"
  /\ retry.maxRetries = 3
  /\ retry.results = <<"timeout", "nonOk", "ok">>
  /\ retry.fetches = 3 /\ retry.waits = 2

\* C33: a request whose path is not /github-webhook reaches a route handler
\* only if it carries an x-api-key header equal to a configured API_KEY;
\* every other such request is answered 403 and reaches no handler.
C33_HandlersNeedTheApiKey ==
  \A c \in Calls :
    LET rq == guard.requests[c] IN
    rq.state # "none" /\ rq.path # "/github-webhook" =>
      IF rq.key # undefined /\ guard.apiKey # undefined
           /\ rq.key = guard.apiKey
      THEN rq.state \in {"next", "handled"}
      ELSE rq.state = "responded" /\ rq.status = 403

\* the promise of withTimeout carries the outcome of the wrapped promise
CarriesWrapped ==
  /\ wrapped.settled = wrapped.promise
  /\ wrapped.value = IF wrapped.promise = "fulfilled" THEN "result" ELSE "err"

\* the promise of withTimeout carries the timeout error
CarriesTimeout ==
  /\ wrapped.settled = "rejected"
  /\ wrapped.value = wrapped.errorMessage

\* C34: the promise of withTimeout settles once: as soon as the wrapped
\* promise has settled or the timer has run it is settled, and what it
\* carries never changes afterwards; it carries the value or error of the
\* wrapped promise, the timer being cleared, whenever the wrapped promise
\* settled before ms had passed, and in no other case than the wrapped
\* promise settling before the timer ran; otherwise it carries an Error with
\* the given message, which happens only after ms has passed; a settlement
\* of the wrapped promise after the timer ran changes nothing.
C34_WithTimeoutSettlesOnce ==
  /\ [](/\ wrapped.settlements <= 1
        /\ wrapped.settled = "none" <=>
             wrapped.promise = "pending" /\ wrapped.timer = "armed"
        /\ wrapped.settled # "none" =>
             /\ wrapped.settlements = 1
             /\ wrapped.timer \in {"cleared", "fired"}
             /\ wrapped.timer = "cleared" =>
                  CarriesWrapped /\ wrapped.promise # "pending"
             /\ wrapped.timer = "fired" =>
                  CarriesTimeout /\ wrapped.age >= wrapped.ms
        /\ wrapped.promise # "pending" /\ wrapped.at < wrapped.ms =>
             CarriesWrapped /\ wrapped.timer = "cleared")
  /\ [][wrapped.settled # "none" =>
          /\ wrapped'.settled = wrapped.settled
          /\ wrapped'.value = wrapped.value
          /\ wrapped'.timer = wrapped.timer
       ]_vars

\* C34 witness: the timer ran first and the promise was rejected with the
\* message; the wrapped promise was fulfilled afterwards, its resolve being
\* the second call, without effect.
C34_Witness ==
  /\ wrapped.timer = "fired"
  /\ CarriesTimeout
  /\ wrapped.promise = "fulfilled"
  /\ wrapped.calls = 2 /\ wrapped.settlements = 1

\* sequence t holds every element of sequence s exactly as often as s does
IsPermutationOf(t, s) ==
  /\ Len(t) = Len(s)
  /\ \A x \in {s[i] : i \in 1..Len(s)} \cup {t[i] : i \in 1..Len(t)} :
       Cardinality({i \in 1..Len(t) : t[i] = x}) =
         Cardinality({i \in 1..Len(s) : s[i] = x})

\* C35: the list shuffleArray returns to getAvailablePort holds every
\* configured port exactly once, so the scan comes to every port; the
\* scheduler's own port list is the configured list, in its order and with
\* its length, before and after the shuffle, and no step changes it.
C35_ShuffleIsPermutationOfACopy ==
  /\ [](shuffle.state # "none" =>
          /\ shuffle.ports = configuredPorts
          /\ shuffle.state \in {"shuffled", "claimed"} =>
               /\ IsPermutationOf(shuffle.shuffledPorts, shuffle.ports)
               /\ \A p \in 1..nports :
                    Cardinality({i \in 1..Len(shuffle.shuffledPorts) :
                                   shuffle.shuffledPorts[i] = p}) = 1)
  /\ [][shuffle'.ports = shuffle.ports]_vars

\* C35 witness: a shuffle of three or more ports that moved every port to
\* another index, the scheduler's list still in the configured order.
C35_Witness ==
  /\ shuffle.state = "shuffled"
  /\ nports >= 3
  /\ \A i \in 1..nports : shuffle.shuffledPorts[i] # shuffle.ports[i]
  /\ shuffle.ports = configuredPorts
====
